---- MODULE Spec2Model ----
(***************************************************************************)
(* AutoStream agent: the lead record and its slot extractor                *)
(* (agents/lead_collector.py, models/lead.py), the capture tool            *)
(* (tools/lead_capture.py) and the per-turn orchestration of               *)
(* graph/workflow.py (run, run_stream) and app.py (main), the context      *)
(* builders (workflow.py, agents/rag_retriever.py, app.py) and two         *)
(* sessions whose turns interleave.                                        *)
(*                                                                         *)
(* Python strings are sequences of one-character strings, so that strip,   *)
(* split, lower, substring search and the e-mail regular expression are    *)
(* computed, not assumed.  An Optional[str] field is a sequence of length  *)
(* 0 (None) or 1 (the string).                                             *)
(***************************************************************************)
EXTENDS Naturals, Sequences, FiniteSets, TLC

VARIABLES
    lead_data,       \* the LeadData object of the session: [name, email, platform]
    fed,             \* the messages given to extract so far (indices into Messages)
    session,         \* which entry point drives the session: "lead", "workflow", "app"
    messages,        \* workflow: state["messages"]; app: conversation_history
    lead_captured,   \* workflow: state["lead_captured"]
    prior,           \* number of turns the session had taken when the model starts
    turns,           \* number of turns taken in the session
    last,            \* what the last turn did (record, see NoTurn)
    context,         \* the grounding text last built (record, see NoContext)
    history,         \* every entry ever appended to the session's window, in order
    heap,            \* two sessions: the list objects, by reference
    sess,            \* two sessions: each one's [variant, ref, lead_captured, turns]
    solo,            \* two sessions: each one's state had it run its turns alone
    order            \* two sessions: the sessions in the order they took turns

vars ==
    <<lead_data, fed, session, messages, lead_captured, prior, turns, last, context,
      history, heap, sess, solo, order>>

\* the variables of the two-session model
sessionVars == <<heap, sess, solo, order>>

NoSessions == heap = <<>> /\ sess = <<>> /\ solo = <<>> /\ order = <<>>

----------------------------------------------------------------------------
(* Characters and the str methods the code uses *)

UpperLetters ==
    <<"A", "B", "C", "D", "E", "F", "G", "H", "I", "J", "K", "L", "M",
      "N", "O", "P", "Q", "R", "S", "T", "U", "V", "W", "X", "Y", "Z">>

LowerLetters ==
    <<"a", "b", "c", "d", "e", "f", "g", "h", "i", "j", "k", "l", "m",
      "n", "o", "p", "q", "r", "s", "t", "u", "v", "w", "x", "y", "z">>

Upper == {UpperLetters[i] : i \in 1..26}

Lower == {LowerLetters[i] : i \in 1..26}

Letters == Upper \cup Lower

Digits == {"0", "1", "2", "3", "4", "5", "6", "7", "8", "9"}

Whitespace == {" ", "\t", "\n"}

\* str.lower() on one character
LowerChar(c) ==
    IF c \in Upper
    THEN LowerLetters[CHOOSE i \in 1..26 : UpperLetters[i] = c]
    ELSE c

\* str.upper() on one character
UpperChar(c) ==
    IF c \in Lower
    THEN UpperLetters[CHOOSE i \in 1..26 : LowerLetters[i] = c]
    ELSE c

\* str.lower()
lower(s) == [i \in 1..Len(s) |-> LowerChar(s[i])]

\* str.isupper() of a one-character string
isupper(c) == c \in Upper

RECURSIVE lstrip(_)
lstrip(s) ==
    IF s # <<>> /\ Head(s) \in Whitespace THEN lstrip(Tail(s)) ELSE s

RECURSIVE rstrip(_)
rstrip(s) ==
    IF s # <<>> /\ s[Len(s)] \in Whitespace
    THEN rstrip(SubSeq(s, 1, Len(s) - 1))
    ELSE s

\* str.strip()
strip(s) == rstrip(lstrip(s))

\* str.split(): the maximal runs of non-whitespace characters, in order
RECURSIVE SplitFrom(_, _, _)
SplitFrom(s, word, acc) ==
    IF s = <<>>
    THEN IF word = <<>> THEN acc ELSE Append(acc, word)
    ELSE IF Head(s) \in Whitespace
         THEN SplitFrom(Tail(s), <<>>, IF word = <<>> THEN acc ELSE Append(acc, word))
         ELSE SplitFrom(Tail(s), Append(word, Head(s)), acc)

split(s) == SplitFrom(s, <<>>, <<>>)

\* the `in` operator on strings: sub occurs in s
Contains(s, sub) ==
    \E i \in 1..(Len(s) + 1) :
        /\ i + Len(sub) - 1 <= Len(s)
        /\ SubSeq(s, i, i + Len(sub) - 1) = sub

\* str.title(): the first letter of every run of letters upper, the rest lower
title(s) ==
    [i \in 1..Len(s) |->
        IF i = 1 \/ s[i - 1] \notin Letters THEN UpperChar(s[i]) ELSE LowerChar(s[i])]

----------------------------------------------------------------------------
(* Optional[str] *)

None == <<>>

Some(s) == <<s>>

\* Python truthiness of an Optional[str]: None and "" are falsy
Truthy(f) == f # None /\ f[1] # <<>>

----------------------------------------------------------------------------
(* The e-mail regular expression of extract_info_from_message:             *)
(*   \b[A-Za-z0-9._%+-]+@[A-Za-z0-9.-]+\.[A-Z|a-z]{2,}\b                   *)

LocalChars == Letters \cup Digits \cup {".", "_", "%", "+", "-"}

DomainChars == Letters \cup Digits \cup {".", "-"}

TldChars == Letters \cup {"|"}

WordChars == Letters \cup Digits \cup {"_"}

IsWordAt(s, i) == i \in 1..Len(s) /\ s[i] \in WordChars

\* \b between positions i-1 and i
WordBoundary(s, i) == IsWordAt(s, i - 1) # IsWordAt(s, i)

\* the positions where each part of the pattern can start or end
EmailStarts(s, a) ==
    {i \in 1..(a - 1) :
        WordBoundary(s, i) /\ \A k \in i..(a - 1) : s[k] \in LocalChars}

EmailDots(s, a) ==
    {p \in (a + 2)..Len(s) :
        s[p] = "." /\ \A k \in (a + 1)..(p - 1) : s[k] \in DomainChars}

EmailEnds(s, p) ==
    {e \in (p + 2)..Len(s) :
        WordBoundary(s, e + 1) /\ \A k \in (p + 1)..e : s[k] \in TldChars}

EmailMatches(s) ==
    UNION {UNION {UNION {{<<i, a, p, e>> : e \in EmailEnds(s, p)}
                         : p \in EmailDots(s, a)}
                  : i \in EmailStarts(s, a)}
           : a \in {k \in 1..Len(s) : s[k] = "@"}}

\* re.search: the leftmost start; the greedy quantifiers then give the longest
\* domain (the last "\.") and, for it, the longest top-level part
email_search(s) ==
    LET ms == EmailMatches(s) IN
    IF ms = {} THEN None
    ELSE LET i == CHOOSE x \in {m[1] : m \in ms} : \A m \in ms : x <= m[1]
             mi == {m \in ms : m[1] = i}
             p == CHOOSE x \in {m[3] : m \in mi} : \A m \in mi : x >= m[3]
             mp == {m \in mi : m[3] = p}
             e == CHOOSE x \in {m[4] : m \in mp} : \A m \in mp : x >= m[4]
         IN  Some(SubSeq(s, i, e))

----------------------------------------------------------------------------
(* models/lead.py: LeadData *)

StrYouTube == <<"Y", "o", "u", "T", "u", "b", "e">>

StrInstagram == <<"I", "n", "s", "t", "a", "g", "r", "a", "m">>

StrTikTok == <<"T", "i", "k", "T", "o", "k">>

StrFacebook == <<"F", "a", "c", "e", "b", "o", "o", "k">>

StrTwitter == <<"T", "w", "i", "t", "t", "e", "r">>

StrTwitch == <<"T", "w", "i", "t", "c", "h">>

StrLinkedIn == <<"L", "i", "n", "k", "e", "d", "I", "n">>

\* the canonical vocabulary, in the declared order
platforms ==
    <<StrYouTube, StrInstagram, StrTikTok, StrFacebook, StrTwitter, StrTwitch,
      StrLinkedIn>>

\* LeadData(): every field defaults to None
EmptyLead == [name |-> None, email |-> None, platform |-> None]

\* Field(min_length=2) and validate_name accept v: None, or at least 2 characters
\* after strip()
validate_name_ok(v) == v = None \/ (Len(v[1]) >= 2 /\ Len(strip(v[1])) >= 2)

\* validate_platform: the keys and values of platform_mapping, in its order
platform_mapping ==
    <<<<<<"Y", "o", "u", "t", "u", "b", "e">>, StrYouTube>>,
      <<<<"T", "i", "k", "t", "o", "k">>, StrTikTok>>,
      <<<<"I", "n", "s", "t", "a", "g", "r", "a", "m">>, StrInstagram>>,
      <<<<"F", "a", "c", "e", "b", "o", "o", "k">>, StrFacebook>>,
      <<<<"T", "w", "i", "t", "t", "e", "r">>, StrTwitter>>,
      <<<<"T", "w", "i", "t", "c", "h">>, StrTwitch>>,
      <<<<"L", "i", "n", "k", "e", "d", "i", "n">>, StrLinkedIn>>>>

\* validate_platform: v.strip().title(), replaced by the value of the first key
\* that equals it when both are lower-cased; any other string is returned as it is
validate_platform(v) ==
    IF v = None THEN None
    ELSE LET t == title(strip(v[1]))
             hits == {i \in 1..Len(platform_mapping) :
                         lower(t) = lower(platform_mapping[i][1])}
         IN  IF hits # {}
             THEN Some(platform_mapping[CHOOSE i \in hits : \A j \in hits : i <= j][2])
             ELSE Some(t)

\* LeadData(platform=v): the other fields at their defaults
LeadData(v) == [name |-> None, email |-> None, platform |-> validate_platform(v)]

\* EmailStr accepts s: one "@", a dot-atom before it, and after it at least two
\* dot-separated labels of letters, digits and inner hyphens, the last one letters
EmailStrOk(s) ==
    LET ats == {k \in 1..Len(s) : s[k] = "@"} IN
    /\ Cardinality(ats) = 1
    /\ LET a == CHOOSE k \in ats : TRUE
           dots == {k \in 1..Len(s) : s[k] = "."}
           edge(k) == k = 1 \/ k = Len(s) \/ k = a - 1 \/ k = a + 1
       IN  /\ 1 < a /\ a < Len(s)
           /\ \A k \in 1..(a - 1) : s[k] \in LocalChars
           /\ \A k \in (a + 1)..Len(s) : s[k] \in DomainChars
           /\ \A k \in dots : ~edge(k) /\ s[k + 1] # "."
           /\ \A k \in (a + 1)..Len(s) : s[k] = "-" => (~edge(k) /\ s[k - 1] # "." /\ s[k + 1] # ".")
           /\ \E p \in dots : p > a /\ p + 2 <= Len(s) /\ \A k \in (p + 1)..Len(s) : s[k] \in Letters

\* LeadData.is_complete: all([self.name, self.email, self.platform])
is_complete(d) == Truthy(d.name) /\ Truthy(d.email) /\ Truthy(d.platform)

\* LeadData.missing_fields
missing_fields(d) ==
    (IF ~Truthy(d.name) THEN <<"name">> ELSE <<>>)
    \o (IF ~Truthy(d.email) THEN <<"email">> ELSE <<>>)
    \o (IF ~Truthy(d.platform) THEN <<"platform">> ELSE <<>>)

----------------------------------------------------------------------------
(* agents/lead_collector.py: LeadCollector.extract_info_from_message *)

connectors == {<<"v", "a", "n">>, <<"d", "e">>, <<"v", "o", "n">>}

common_phrases ==
    {<<"y", "e", "s">>, <<"s", "u", "r", "e">>, <<"o", "k">>, <<"y", "e", "a", "h">>,
     <<"n", "o">>, <<"t", "h", "a", "n", "k", "s">>}

\* a variant that drops the `if not current_lead_data.email` guard
ExtractEmailUnguarded(message, cur) ==
    LET m == email_search(message) IN
    IF m # None THEN [cur EXCEPT !.email = m] ELSE cur

\* the e-mail slot: the first match of the pattern, when the slot is empty
ExtractEmail(message, cur) ==
    IF ~Truthy(cur.email)
    THEN LET m == email_search(message) IN
         IF m # None THEN [cur EXCEPT !.email = m] ELSE cur
    ELSE cur

\* a variant that compares the message with the vocabulary without lower-casing
PlatformHitsCaseSensitive(message) ==
    {i \in 1..Len(platforms) : Contains(message, platforms[i])}

\* the vocabulary entries whose lower-case form occurs in the lower-cased message
PlatformHits(message) ==
    {i \in 1..Len(platforms) : Contains(lower(message), lower(platforms[i]))}

\* a variant that drops the `if not current_lead_data.platform` guard
ExtractPlatformUnguarded(message, cur) ==
    LET hits == PlatformHits(message) IN
    IF hits # {}
    THEN [cur EXCEPT !.platform =
             Some(platforms[CHOOSE i \in hits : \A j \in hits : i <= j])]
    ELSE cur

\* a variant whose loop does not stop at the first entry that occurs
ExtractPlatformLastHit(message, cur) ==
    IF ~Truthy(cur.platform)
    THEN LET hits == PlatformHits(message) IN
         IF hits # {}
         THEN [cur EXCEPT !.platform =
                  Some(platforms[CHOOSE i \in hits : \A j \in hits : i >= j])]
         ELSE cur
    ELSE cur

\* the platform slot: the first vocabulary entry that occurs, when the slot is empty
ExtractPlatform(message, cur) ==
    IF ~Truthy(cur.platform)
    THEN LET hits == PlatformHits(message) IN
         IF hits # {}
         THEN [cur EXCEPT !.platform =
                  Some(platforms[CHOOSE i \in hits : \A j \in hits : i <= j])]
         ELSE cur
    ELSE cur

\* a variant of the name heuristic without the test against common_phrases
LooksLikeNameAnyPhrase(message) ==
    LET words == split(strip(message)) IN
    /\ 1 <= Len(words) /\ Len(words) <= 4
    /\ \A k \in 1..Len(words) :
           isupper(words[k][1]) \/ lower(words[k]) \in connectors

\* the name heuristic: 1 to 4 words, each capitalized or a connector, and the
\* lower-cased message no common phrase
LooksLikeName(message) ==
    LET words == split(strip(message)) IN
    /\ 1 <= Len(words) /\ Len(words) <= 4
    /\ \A k \in 1..Len(words) :
           isupper(words[k][1]) \/ lower(words[k]) \in connectors
    /\ lower(message) \notin common_phrases

\* the name slot: the stripped message, when the slot is empty
ExtractName(message, cur) ==
    IF ~Truthy(cur.name) /\ LooksLikeName(message)
    THEN [cur EXCEPT !.name = Some(strip(message))]
    ELSE cur

\* a variant in which the three slots are alternatives: the first heuristic
\* that fills a slot ends the call
extract_first_match_only(message, cur) ==
    IF ExtractEmail(message, cur) # cur THEN ExtractEmail(message, cur)
    ELSE IF ExtractPlatform(message, cur) # cur THEN ExtractPlatform(message, cur)
    ELSE ExtractName(message, cur)

\* the three slots in the order of the code: e-mail, platform, name
extract_info_from_message(message, cur) ==
    ExtractName(message, ExtractPlatform(message, ExtractEmail(message, cur)))

\* The call as the caller sees it. The record is passed by reference: the
\* assignments of the three slots go to the object at ref, and that reference is
\* what the call returns
extract_call(message, ref, objects) ==
    [objects |-> [objects EXCEPT ![ref] = extract_info_from_message(message, objects[ref])],
     returned |-> ref]

\* LeadCollector.is_ready_for_capture
is_ready_for_capture(d) == is_complete(d)

----------------------------------------------------------------------------
(* The user messages the lead session draws from *)

MsgMyNameIs ==
    <<"M", "y", " ", "n", "a", "m", "e", " ", "i", "s", " ", "J", "a", "n", "e", " ", "D", "o", "e">>

MsgJaneEmail ==
    <<"j", "a", "n", "e", "@", "e", "x", "a", "m", "p", "l", "e", ".", "c", "o", "m">>

MsgYouTubeVideos ==
    <<"I", " ", "m", "a", "k", "e", " ", "Y", "o", "u", "T", "u", "b", "e", " ", "v", "i", "d", "e", "o", "s">>

MsgJaneDoe ==
    <<"J", "a", "n", "e", " ", "D", "o", "e">>

MsgSingleLetter ==
    <<"A">>

MsgBobEmail ==
    <<"W", "r", "i", "t", "e", " ", "t", "o", " ", "b", "o", "b", "@", "o", "t", "h", "e", "r", ".", "o", "r", "g", " ", "p", "l", "e", "a", "s", "e">>

MsgOnTiktok ==
    <<"I", "'", "m", " ", "o", "n", " ", "t", "i", "k", "t", "o", "k">>

MsgUseTiktok ==
    <<"I", " ", "u", "s", "e", " ", "T", "i", "k", "t", "o", "k">>

MsgTwitch ==
    <<"T", "w", "i", "t", "c", "h">>

MsgYesPadded ==
    <<" ", "Y", "e", "s", " ">>

MsgYes ==
    <<"Y", "e", "s">>

MsgTwoPlatforms ==
    <<"t", "i", "k", "t", "o", "k", " ", "a", "n", "d", " ", "Y", "o", "u", "T", "u", "b", "e">>

MsgVanName ==
    <<"L", "u", "d", "w", "i", "g", " ", "v", "a", "n", " ", "B", "e", "e", "t", "h", "o", "v", "e", "n">>

MsgHello ==
    <<"h", "e", "l", "l", "o", " ", "t", "h", "e", "r", "e">>

MsgMixedConnector ==
    <<"L", "u", "d", "w", "i", "g", " ", "v", "A", "N", " ", "B", "e", "e", "t", "h", "o", "v", "e", "n">>

MsgUpperInstagram ==
    <<"m", "y", " ", "I", "N", "S", "T", "A", "G", "R", "A", "M">>

Messages ==
    <<MsgMyNameIs, MsgJaneEmail, MsgYouTubeVideos, MsgJaneDoe, MsgSingleLetter,
      MsgBobEmail, MsgOnTiktok, MsgUseTiktok, MsgTwitch, MsgYesPadded, MsgYes,
      MsgTwoPlatforms, MsgVanName, MsgHello, MsgUpperInstagram, MsgMixedConnector>>

\* The platform values a caller constructs a record with: LeadData(platform=...)
RawTiktok == <<"t", "i", "k", "t", "o", "k">>

RawUpperYouTube == <<" ", "Y", "O", "U", "T", "U", "B", "E", " ">>

RawLinkedin == <<"L", "i", "n", "k", "e", "d", "i", "n">>

RawSnapchat == <<"s", "n", "a", "p", "c", "h", "a", "t">>

RawBlank == <<" ", " ">>

RawPlatforms ==
    {None, Some(RawTiktok), Some(RawUpperYouTube), Some(RawLinkedin), Some(RawSnapchat),
     Some(RawBlank)}

\* the position of message m in Messages
Idx(m) == CHOOSE i \in 1..Len(Messages) : Messages[i] = m

\* the number of extract calls of a lead session
MaxCalls == 3

----------------------------------------------------------------------------
(* tools/lead_capture.py: the capture tool *)

Fields == {"name", "email", "platform"}

\* Tool-call arguments map a subset of Fields to the kind of value given:
\* "str" a non-empty string, "empty" the string "", "bad" a value that is no string.
ArgsComplete == [f \in Fields |-> "str"]

ArgsNameOnly == [f \in {"name"} |-> "str"]

ArgsEmptyName == [f \in Fields |-> IF f = "name" THEN "empty" ELSE "str"]

ArgsBadEmail == [f \in Fields |-> IF f = "email" THEN "bad" ELSE "str"]

ArgsBadName == [f \in Fields |-> IF f = "name" THEN "bad" ELSE "str"]

ArgsNone == [f \in {} |-> "str"]

\* the argument schema of lead_capture_tool (name: str, email: str, platform: str):
\* the fields it rejects, which the validation error names
ToolInputErrors(args) ==
    {f \in Fields : f \notin DOMAIN args \/ args[f] = "bad"}

\* str(e) of the tool's input validation error: a header, then for every
\* rejected field its name and what is wrong with it
ErrHeader ==
    <<"v", "a", "l", "i", "d", "a", "t", "i", "o", "n", " ", "e", "r", "r", "o", "r", " ", "f", "o", "r", " ", "l", "e", "a", "d", "_", "c", "a", "p", "t", "u", "r", "e", "_", "t", "o", "o", "l", "\n">>

ErrRequired ==
    <<"\n", " ", " ", "F", "i", "e", "l", "d", " ", "r", "e", "q", "u", "i", "r", "e", "d", "\n">>

ErrNotString ==
    <<"\n", " ", " ", "I", "n", "p", "u", "t", " ", "s", "h", "o", "u", "l", "d", " ", "b", "e", " ", "a", " ", "v", "a", "l", "i", "d", " ", "s", "t", "r", "i", "n", "g", "\n">>

FieldChars(f) ==
    CASE f = "name" -> <<"n", "a", "m", "e">>
      [] f = "email" -> <<"e", "m", "a", "i", "l">>
      [] f = "platform" -> <<"p", "l", "a", "t", "f", "o", "r", "m">>

FieldError(args, f) ==
    IF f \in ToolInputErrors(args)
    THEN FieldChars(f) \o (IF f \in DOMAIN args THEN ErrNotString ELSE ErrRequired)
    ELSE <<>>

ToolErrorText(args) ==
    ErrHeader \o FieldError(args, "name") \o FieldError(args, "email")
    \o FieldError(args, "platform")

\* a variant of lead_capture that lets the send failure escape
lead_capture_raising(sendOK) ==
    IF sendOK THEN [raised |-> FALSE, text |-> <<"confirm">>]
    ELSE [raised |-> TRUE, text |-> <<>>]

\* lead_capture: the send inside try/except; a confirmation text either way
lead_capture(sendOK) ==
    IF sendOK THEN [raised |-> FALSE, text |-> <<"confirm">>]
    ELSE [raised |-> FALSE, text |-> <<"degraded">>]

\* lead_capture_tool.invoke(args): the schema check, then lead_capture.
\* sent: the notification send was attempted; error: the text of the exception
tool_invoke(args, sendOK) ==
    IF ToolInputErrors(args) # {}
    THEN [raised |-> TRUE, sent |-> FALSE, text |-> <<>>, error |-> ToolErrorText(args)]
    ELSE LET r == lead_capture(sendOK) IN
         [raised |-> r.raised, sent |-> TRUE, text |-> r.text, error |-> <<>>]

----------------------------------------------------------------------------
(* The context builders: workflow._retrieve_context,                        *)
(* RAGRetriever.retrieve_context and the inline builder of app.main.        *)
(* A text is a sequence of parts; docs is what similarity_search returned,  *)
(* a sequence of page contents.                                             *)

Placeholder == <<"No relevant information found in the knowledge base.">>

\* the decimal form of i, as f"{i}" gives it
Decimal(i) == <<"1", "2", "3", "4", "5", "6", "7", "8", "9">>[i]

\* sep.join(parts)
RECURSIVE Join(_, _)
Join(parts, sep) ==
    IF parts = <<>> THEN <<>>
    ELSE IF Len(parts) = 1 THEN parts[1]
    ELSE parts[1] \o <<sep>> \o Join(Tail(parts), sep)

\* AutoStreamWorkflow._retrieve_context
workflow_retrieve_context(docs) ==
    IF docs = <<>> THEN Placeholder
    ELSE Join([i \in 1..Len(docs) |-> <<"Document ", Decimal(i), ":\n", docs[i]>>], "\n\n")

\* RAGRetriever.retrieve_context
retrieve_context(docs) ==
    Join([i \in 1..Len(docs) |-> <<"--- Context ", Decimal(i), " ---\n", docs[i], "\n">>], "\n")

\* main: "\n\n".join([doc.page_content for doc in docs])
main_context(docs) == Join([i \in 1..Len(docs) |-> <<docs[i]>>], "\n\n")

\* the number of documents each builder asks similarity_search for
WorkflowK == 3

RetrieverK == 4

MainK == 4

\* the page contents of the knowledge base
Passages == {"pricing", "features", "support"}

\* what similarity_search(query, k) can return: at most k passages
SearchResults(k) == UNION {[1..n -> Passages] : n \in 0..k}

NoContext == [builder |-> "none", docs |-> <<>>, text |-> <<>>]

----------------------------------------------------------------------------
(* graph/workflow.py: AutoStreamWorkflow *)

\* the window keeps the last 12 messages
WindowLimit == 12

\* the value an argument is shown with: args.get(f)
ArgGet(args, f) == IF f \in DOMAIN args THEN args[f] ELSE "None"

\* a variant that looks for "name" before it looks for "email"
handle_validation_error_name_first(error, args) ==
    IF Contains(lower(error), <<"n", "a", "m", "e">>) THEN <<"ask_name">>
    ELSE IF Contains(lower(error), <<"e", "m", "a", "i", "l">>) THEN <<"ask_email", ArgGet(args, "email")>>
    ELSE <<"ask_all">>

\* _handle_validation_error: the corrective text chosen from the lower-cased
\* error text; the e-mail text quotes the e-mail argument
handle_validation_error(error, args) ==
    IF Contains(lower(error), <<"e", "m", "a", "i", "l">>) THEN <<"ask_email", ArgGet(args, "email")>>
    ELSE IF Contains(lower(error), <<"n", "a", "m", "e">>) THEN <<"ask_name">>
    ELSE <<"ask_all">>

\* A conversation entry is identified by its role, its turn and its position k
\* among the entries of that turn; calls is the number of tool calls it requests.
\* Its text (a sequence of parts) is recorded beside it, in texts.
Entry(role, turn, k, calls) == [role |-> role, turn |-> turn, k |-> k, calls |-> calls]

\* messages.append(<role>Message(content=content))
Say(acc, role, turn, content, calls) ==
    [acc EXCEPT !.messages = Append(@, Entry(role, turn, Len(acc.texts) + 1, calls)),
                !.texts = Append(@, content)]

\* a variant that starts every turn with the flag cleared
TurnStartCleared(ms, captured) ==
    [messages |-> ms, lead_captured |-> FALSE, texts |-> <<>>, events |-> <<>>,
     emitted |-> <<>>, tool_executed |-> FALSE, hasText |-> FALSE, collected |-> <<>>,
     aborted |-> FALSE, steps |-> <<>>, seen |-> <<>>]

\* the accumulator of one turn: the session state it works on and what it did
TurnStart(ms, captured) ==
    [messages |-> ms, lead_captured |-> captured, texts |-> <<>>, events |-> <<>>,
     emitted |-> <<>>, tool_executed |-> FALSE, hasText |-> FALSE, collected |-> <<>>,
     aborted |-> FALSE, steps |-> <<>>, seen |-> <<>>]

\* the engine's text, empty when it gave none
ContentOf(hasText) == IF hasText THEN <<"text">> ELSE <<>>

\* `if args and "name" in args and "email" in args and "platform" in args`
ArgsGuard(args) == DOMAIN args # {} /\ Fields \subseteq DOMAIN args

\* a variant of the truncation that keeps the oldest entries
TruncateFront(ms, limit) ==
    IF Len(ms) > limit THEN SubSeq(ms, 1, limit) ELSE ms

\* a variant of the truncation whose test is off by one
TruncateLate(ms, limit) ==
    IF Len(ms) > limit + 1 THEN SubSeq(ms, Len(ms) - limit + 1, Len(ms)) ELSE ms

\* state["messages"][-12:] when longer than 12
Truncate(ms, limit) ==
    IF Len(ms) > limit THEN SubSeq(ms, Len(ms) - limit + 1, Len(ms)) ELSE ms

\* what one tool call did: outcome is "executed", "raised", "rejected" or "ignored"
Event(tc, outcome, sent) ==
    [name |-> tc.name, args |-> tc.args, outcome |-> outcome, sent |-> sent]

\* steps: the calls of the turn to its collaborators in the order they were made,
\* "generate" a generation call and "invoke" lead_capture_tool.invoke
Step(acc, step) == [acc EXCEPT !.steps = Append(@, step)]

Log(acc, tc, outcome, sent) ==
    [acc EXCEPT !.events = Append(@, Event(tc, outcome, sent)),
                !.steps = IF outcome \in {"executed", "raised"} THEN Append(@, "invoke") ELSE @]

\* a variant of RunCall that sets the flag before it invokes the tool
RunCallEager(tc, hasText, sendOK, turn, acc) ==
    IF tc.name # "lead_capture_tool"
    THEN Log(acc, tc, "ignored", FALSE)
    ELSE IF ArgsGuard(tc.args)
    THEN LET r == tool_invoke(tc.args, sendOK) IN
         IF ~r.raised
         THEN [Say(Log(acc, tc, "executed", r.sent), "assistant", turn, r.text, 0)
                  EXCEPT !.lead_captured = TRUE]
         ELSE [Say(Log(acc, tc, "raised", r.sent), "assistant", turn,
                   handle_validation_error(r.error, tc.args), 0)
                  EXCEPT !.lead_captured = TRUE]
    ELSE IF hasText
    THEN Say(Log(acc, tc, "rejected", FALSE), "assistant", turn, <<"text">>, 0)
    ELSE Log(acc, tc, "rejected", FALSE)

\* run, lines 174-189: one iteration of the loop over response.tool_calls
RunCall(tc, hasText, sendOK, turn, acc) ==
    IF tc.name # "lead_capture_tool"
    THEN Log(acc, tc, "ignored", FALSE)
    ELSE IF ArgsGuard(tc.args)
    THEN LET r == tool_invoke(tc.args, sendOK) IN
         IF ~r.raised
         THEN [Say(Log(acc, tc, "executed", r.sent), "assistant", turn, r.text, 0)
                  EXCEPT !.lead_captured = TRUE]
         ELSE Say(Log(acc, tc, "raised", r.sent), "assistant", turn,
                  handle_validation_error(r.error, tc.args), 0)
    ELSE IF hasText
    THEN Say(Log(acc, tc, "rejected", FALSE), "assistant", turn, <<"text">>, 0)
    ELSE Log(acc, tc, "rejected", FALSE)

RECURSIVE RunCalls(_, _, _, _, _)
RunCalls(calls, hasText, sendOK, turn, acc) ==
    IF calls = <<>> THEN acc
    ELSE RunCalls(Tail(calls), hasText, sendOK, turn,
                  RunCall(Head(calls), hasText, sendOK, turn, acc))

\* run, lines 167-198, after the generation call returned resp
run(st, turn, resp, sendOK) ==
    LET start == Say(Step(TurnStart(st.messages, st.lead_captured), "generate"),
                     "user", turn, <<"user">>, 0)
        done == IF resp.tool_calls # <<>>
                THEN RunCalls(resp.tool_calls, resp.content, sendOK, turn, start)
                ELSE Say(start, "assistant", turn, ContentOf(resp.content), 0)
    IN  [done EXCEPT !.messages = Truncate(@, WindowLimit)]

\* run_stream, lines 233-244: one chunk of the stream. Its text is added to
\* full_response and yielded; its tool calls are kept when name and args are set
StreamChunk(chunk, acc) ==
    [acc EXCEPT
        !.hasText = @ \/ chunk.content,
        !.emitted = IF chunk.content THEN Append(@, <<"text">>) ELSE @,
        !.seen = @ \o chunk.tool_calls,
        !.collected = @ \o SelectSeq(chunk.tool_calls,
                                     LAMBDA tc : DOMAIN tc.args # {} /\ tc.name # "")]

RECURSIVE StreamChunks(_, _)
StreamChunks(chunks, acc) ==
    IF chunks = <<>> THEN acc
    ELSE StreamChunks(Tail(chunks), StreamChunk(Head(chunks), acc))

\* run_stream, lines 250-273: one iteration of the loop over tool_calls_collected
StreamCall(tc, sendOK, turn, acc) ==
    IF tc.name # "lead_capture_tool"
    THEN Log(acc, tc, "ignored", FALSE)
    ELSE IF ArgsGuard(tc.args)
    THEN LET r == tool_invoke(tc.args, sendOK) IN
         IF ~r.raised
         THEN [Say(Log(acc, tc, "executed", r.sent), "assistant", turn,
                   ContentOf(acc.hasText) \o r.text, 0)
                  EXCEPT !.lead_captured = TRUE,
                         !.tool_executed = TRUE,
                         !.emitted = Append(@, r.text)]
         ELSE LET error_msg == handle_validation_error(r.error, tc.args) IN
              [Say(Log(acc, tc, "raised", r.sent), "assistant", turn,
                   ContentOf(acc.hasText) \o error_msg, 0)
                  EXCEPT !.tool_executed = TRUE,
                         !.emitted = Append(@, error_msg)]
    ELSE Log(acc, tc, "rejected", FALSE)

RECURSIVE StreamCalls(_, _, _, _)
StreamCalls(calls, sendOK, turn, acc) ==
    IF calls = <<>> THEN acc
    ELSE StreamCalls(Tail(calls), sendOK, turn, StreamCall(Head(calls), sendOK, turn, acc))

\* run_stream, lines 226-284. cut is the number of chunks the stream delivers
\* before it raises; Len(chunks) + 1 when it ends normally
run_stream(st, turn, chunks, sendOK, cut) ==
    LET start == Step(Say(TurnStart(st.messages, st.lead_captured), "user", turn, <<"user">>, 0),
                      "generate")
        read == StreamChunks(SubSeq(chunks, 1, IF cut > Len(chunks) THEN Len(chunks) ELSE cut),
                             start)
        called == StreamCalls(read.collected, sendOK, turn, read)
        replied == IF ~called.tool_executed /\ called.hasText
                   THEN Say(called, "assistant", turn, <<"text">>, 0)
                   ELSE called
    IN  IF cut <= Len(chunks)
        THEN [read EXCEPT !.aborted = TRUE]
        ELSE [replied EXCEPT !.messages = Truncate(@, WindowLimit),
                             !.emitted = Append(@, <<"state">>)]

----------------------------------------------------------------------------
(* app.py: main *)

\* the history keeps the last 10 messages
AppWindowLimit == 10

\* main, lines 127-153: the loop over response.tool_calls, which ends at the
\* first lead_capture_tool call. gen2OK: the second generation call returns
RECURSIVE MainCalls(_, _, _, _, _, _)
MainCalls(calls, resp, sendOK, gen2OK, turn, acc) ==
    IF calls = <<>> THEN acc
    ELSE LET tc == Head(calls) IN
         IF tc.name # "lead_capture_tool"
         THEN MainCalls(Tail(calls), resp, sendOK, gen2OK, turn, Log(acc, tc, "ignored", FALSE))
         ELSE LET r == tool_invoke(tc.args, sendOK) IN
              IF r.raised
              THEN [Log(acc, tc, "raised", r.sent) EXCEPT !.aborted = TRUE]
              ELSE IF ~gen2OK
              THEN [Step(Log(acc, tc, "executed", r.sent), "generate") EXCEPT !.aborted = TRUE]
              ELSE Say(Say(Say(Say(Step(Log(acc, tc, "executed", r.sent), "generate"),
                                   "user", turn, <<"user">>, 0),
                               "assistant", turn, ContentOf(resp.content), Len(resp.tool_calls)),
                           "tool", turn, r.text, 0),
                       "assistant", turn, <<"final">>, 0)

\* main, lines 118-172, after the first generation call returned resp.
\* aborted: an exception reached the handler's except clause (the apology is sent)
main(conversation_history, turn, resp, sendOK, gen2OK) ==
    LET start == Step(TurnStart(conversation_history, FALSE), "generate")
        done == IF resp.tool_calls # <<>>
                THEN MainCalls(resp.tool_calls, resp, sendOK, gen2OK, turn, start)
                ELSE Say(Say(start, "user", turn, <<"user">>, 0),
                         "assistant", turn, ContentOf(resp.content), 0)
    IN  IF done.aborted THEN done
        ELSE [done EXCEPT !.messages = Truncate(@, AppWindowLimit)]

----------------------------------------------------------------------------
(* The engine's responses the turns draw from *)

CallComplete == [name |-> "lead_capture_tool", args |-> ArgsComplete]

CallNameOnly == [name |-> "lead_capture_tool", args |-> ArgsNameOnly]

CallEmptyName == [name |-> "lead_capture_tool", args |-> ArgsEmptyName]

CallBadEmail == [name |-> "lead_capture_tool", args |-> ArgsBadEmail]

CallBadName == [name |-> "lead_capture_tool", args |-> ArgsBadName]

CallNoArgs == [name |-> "lead_capture_tool", args |-> ArgsNone]

CallOther == [name |-> "other_tool", args |-> ArgsComplete]

ToolCallLists ==
    {<<>>, <<CallComplete>>, <<CallNameOnly>>, <<CallEmptyName>>, <<CallBadEmail>>,
     <<CallNoArgs>>, <<CallOther>>, <<CallComplete, CallComplete>>,
     <<CallNameOnly, CallComplete>>, <<CallBadEmail, CallComplete>>,
     <<CallOther, CallComplete>>, <<CallComplete, CallBadName>>}

\* content: the response carries text
Responses == [content : BOOLEAN, tool_calls : ToolCallLists]

PlainResponse == [content |-> TRUE, tool_calls |-> <<>>]

\* The ways a response reaches run_stream as chunks: whole in one chunk; the text
\* first and the tool calls in a later chunk; each tool call in fragments, the
\* name in one chunk and the arguments in the next
Whole(resp) == <<[content |-> resp.content, tool_calls |-> resp.tool_calls]>>

TextFirst(resp) ==
    <<[content |-> resp.content, tool_calls |-> <<>>],
      [content |-> FALSE, tool_calls |-> resp.tool_calls]>>

Fragmented(resp) ==
    <<[content |-> resp.content, tool_calls |-> <<>>],
      [content |-> FALSE,
       tool_calls |-> [k \in 1..Len(resp.tool_calls) |->
                          [name |-> resp.tool_calls[k].name, args |-> ArgsNone]]],
      [content |-> FALSE,
       tool_calls |-> [k \in 1..Len(resp.tool_calls) |->
                          [name |-> "", args |-> resp.tool_calls[k].args]]]>>

\* The inputs of a turn. The notification send fails only where a call is
\* complete, and a collaborator fails on a plain or a complete-call response:
\* on the others the failure changes nothing the model records.
SendMatters(resp) == resp.tool_calls \in {<<CallComplete>>, <<CallEmptyName>>}

FailureMatters(resp) == resp.tool_calls \in {<<>>, <<CallComplete>>} /\ resp.content

RunInputs ==
    {in \in [resp : Responses, sendOK : BOOLEAN, callOK : BOOLEAN] :
        /\ ~in.sendOK => SendMatters(in.resp) /\ in.callOK
        /\ ~in.callOK => in.resp = PlainResponse}

StreamInputs ==
    {in \in [chunks : UNION {{Whole(r), TextFirst(r), Fragmented(r)} : r \in Responses},
             sendOK : BOOLEAN, retrievalOK : BOOLEAN, cut : 0..4] :
        /\ in.cut <= Len(in.chunks) + 1
        /\ \E r \in Responses :
              /\ in.chunks \in {Whole(r), TextFirst(r), Fragmented(r)}
              /\ in.chunks # Whole(r) =>
                     r.tool_calls \in {<<CallComplete>>, <<CallNameOnly>>,
                                       <<CallComplete, CallComplete>>}
              /\ ~in.sendOK => SendMatters(r) /\ in.chunks = Whole(r)
              /\ in.cut <= Len(in.chunks) => FailureMatters(r) /\ in.chunks # Fragmented(r)
              /\ ~in.retrievalOK => in.chunks = Whole(PlainResponse)
        /\ ~in.sendOK => in.retrievalOK /\ in.cut = Len(in.chunks) + 1
        /\ ~in.retrievalOK => in.cut = Len(in.chunks) + 1}

MainInputs ==
    {in \in [resp : Responses, sendOK : BOOLEAN, gen1OK : BOOLEAN, gen2OK : BOOLEAN] :
        /\ ~in.sendOK => SendMatters(in.resp) /\ in.gen1OK /\ in.gen2OK
        /\ ~in.gen1OK => in.resp = PlainResponse /\ in.gen2OK
        /\ ~in.gen2OK => in.resp.tool_calls = <<CallComplete>>}

\* the number of turns the model takes, and of plain turns a session may start with
MaxTurns == 3

MaxPriorTurns == 6

----------------------------------------------------------------------------
(* The sessions *)

\* the entries a turn appended: as many as the texts it recorded, at the end
Added(r) == SubSeq(r.messages, Len(r.messages) - Len(r.texts) + 1, Len(r.messages))

NoTurn ==
    [variant |-> "none", aborted |-> FALSE, events |-> <<>>, emitted |-> <<>>,
     before_captured |-> FALSE, before_len |-> 0, added |-> <<>>, texts |-> <<>>,
     sendOK |-> TRUE, steps |-> <<>>, seen |-> <<>>]

\* what a turn leaves in `last`: r is the accumulator it ended with, sendOK
\* whether the notification send of the turn succeeds
Done(variant, r, aborted, sendOK) ==
    [variant |-> variant, aborted |-> aborted, events |-> r.events, emitted |-> r.emitted,
     before_captured |-> lead_captured, before_len |-> Len(messages),
     added |-> Added(r),
     texts |-> r.texts, sendOK |-> sendOK, steps |-> r.steps, seen |-> r.seen]

\* a turn that the failure of a collaborator ended before it assigned anything
Failed(variant) ==
    [variant |-> variant, aborted |-> TRUE, events |-> <<>>, emitted |-> <<>>,
     before_captured |-> lead_captured, before_len |-> Len(messages),
     added |-> <<>>, texts |-> <<>>, sendOK |-> TRUE, steps |-> <<>>, seen |-> <<>>]

\* the workflow state after k turns that each got a plain text reply
RECURSIVE PriorState(_)
PriorState(k) ==
    IF k = 0 THEN [messages |-> <<>>, lead_captured |-> FALSE]
    ELSE run(PriorState(k - 1), k, PlainResponse, TRUE)

\* the app's conversation_history after k turns that each got a plain text reply
RECURSIVE PriorHistory(_)
PriorHistory(k) ==
    IF k = 0 THEN <<>>
    ELSE main(PriorHistory(k - 1), k, PlainResponse, TRUE, TRUE).messages

\* every entry that k turns with a plain text reply appended
RECURSIVE PriorLog(_)
PriorLog(k) ==
    IF k = 0 THEN <<>>
    ELSE PriorLog(k - 1) \o Added(run(PriorState(k - 1), k, PlainResponse, TRUE))

InitWorkflow ==
    /\ session = "workflow"
    /\ prior \in {0, MaxPriorTurns - 1, MaxPriorTurns}
    /\ turns = prior
    /\ messages = PriorState(prior).messages
    /\ history = PriorLog(prior)
    /\ lead_captured = PriorState(prior).lead_captured
    /\ last = NoTurn
    /\ context = NoContext
    /\ NoSessions
    /\ lead_data = EmptyLead
    /\ fed = <<>>

InitApp ==
    /\ session = "app"
    /\ prior \in {0, MaxPriorTurns - 1, MaxPriorTurns}
    /\ turns = prior
    /\ messages = PriorHistory(prior)
    /\ history = PriorLog(prior)
    /\ lead_captured = FALSE
    /\ last = NoTurn
    /\ context = NoContext
    /\ NoSessions
    /\ lead_data = EmptyLead
    /\ fed = <<>>

\* state = workflow.run(user_message, state). callOK: the retrieval and the
\* generation call return; when one raises, run is left before any assignment
RunTurn(resp, sendOK, callOK) ==
    /\ session = "workflow"
    /\ turns < prior + MaxTurns
    /\ turns' = turns + 1
    /\ LET r == run([messages |-> messages, lead_captured |-> lead_captured],
                    turns + 1, resp, sendOK)
       IN  IF callOK
           THEN /\ messages' = r.messages
                /\ lead_captured' = r.lead_captured
                /\ history' = history \o Added(r)
                /\ last' = Done("run", r, FALSE, sendOK)
           ELSE /\ UNCHANGED <<messages, lead_captured, history>>
                /\ last' = Failed("run")
    /\ UNCHANGED <<lead_data, fed, session, prior, context>>
    /\ UNCHANGED sessionVars

\* async for item in workflow.run_stream(user_message, state), read to its end.
\* retrievalOK: _build_messages returns; cut: see run_stream
StreamTurn(chunks, sendOK, retrievalOK, cut) ==
    /\ session = "workflow"
    /\ turns < prior + MaxTurns
    /\ turns' = turns + 1
    /\ LET r == run_stream([messages |-> messages, lead_captured |-> lead_captured],
                           turns + 1, chunks, sendOK, cut)
       IN  IF retrievalOK
           THEN /\ messages' = r.messages
                /\ lead_captured' = r.lead_captured
                /\ history' = history \o Added(r)
                /\ last' = Done("run_stream", r, r.aborted, sendOK)
           ELSE /\ UNCHANGED <<messages, lead_captured, history>>
                /\ last' = Failed("run_stream")
    /\ UNCHANGED <<lead_data, fed, session, prior, context>>
    /\ UNCHANGED sessionVars

\* app.main on one incoming message. gen1OK, gen2OK: the first and the second
\* generation call return
MainTurn(resp, sendOK, gen1OK, gen2OK) ==
    /\ session = "app"
    /\ turns < prior + MaxTurns
    /\ turns' = turns + 1
    /\ LET r == main(messages, turns + 1, resp, sendOK, gen2OK)
       IN  IF gen1OK
           THEN /\ messages' = r.messages
                /\ history' = history \o Added(r)
                /\ last' = Done("main", r, r.aborted, sendOK)
           ELSE /\ UNCHANGED <<messages, history>>
                /\ last' = Failed("main")
    /\ UNCHANGED <<lead_data, fed, session, lead_captured, prior, context>>
    /\ UNCHANGED sessionVars

InitTurns == InitWorkflow \/ InitApp

NextTurns ==
    \/ \E in \in RunInputs : RunTurn(in.resp, in.sendOK, in.callOK)
    \/ \E in \in StreamInputs : StreamTurn(in.chunks, in.sendOK, in.retrievalOK, in.cut)
    \/ \E in \in MainInputs : MainTurn(in.resp, in.sendOK, in.gen1OK, in.gen2OK)

SpecTurns == InitTurns /\ [][NextTurns]_vars

----------------------------------------------------------------------------
(* The lead session: a LeadData() created empty, then extract calls *)

InitLead ==
    /\ session = "lead"
    /\ lead_data = EmptyLead
    /\ fed = <<>>
    /\ messages = <<>>
    /\ history = <<>>
    /\ lead_captured = FALSE
    /\ prior = 0
    /\ turns = 0
    /\ last = NoTurn
    /\ context = NoContext
    /\ NoSessions

\* lead_data = collector.extract_info_from_message(Messages[i], lead_data)
\* last: the record the caller passed as it was before the call (before) and
\* as the caller finds that same object after the call (argument)
Extract(i) ==
    /\ session = "lead"
    /\ Len(fed) < MaxCalls
    /\ LET call == extract_call(Messages[i], 1, <<lead_data>>) IN
           /\ lead_data' = call.objects[call.returned]
           /\ last' = [variant |-> "extract", before |-> lead_data,
                       argument |-> call.objects[1]]
    /\ fed' = Append(fed, i)
    /\ UNCHANGED <<session, messages, lead_captured, prior, turns, context, history>>
    /\ UNCHANGED sessionVars

NextLead == \E i \in 1..Len(Messages) : Extract(i)

SpecLead == InitLead /\ [][NextLead]_vars

\* A record constructed by the caller with a platform, then extract calls
InitRecord ==
    /\ session = "lead"
    /\ \E v \in RawPlatforms : lead_data = LeadData(v)
    /\ fed = <<>>
    /\ messages = <<>>
    /\ history = <<>>
    /\ lead_captured = FALSE
    /\ prior = 0
    /\ turns = 0
    /\ last = NoTurn
    /\ context = NoContext
    /\ NoSessions

SpecRecord == InitRecord /\ [][NextLead]_vars


----------------------------------------------------------------------------
(* Two sessions whose turns interleave. A session's window is a list object: *)
(* the appends of a turn change the object in place, and the truncation     *)
(* binds the session to a new object.                                       *)

SessionIds == {1, 2}

\* the number of turns the two sessions take together
MaxSessionTurns == 3

\* a variant in which every session is handed the same list object
SharedList(i) == 1

\* the list object that `[]` creates for session i (start, line 64; run, line
\* 152): a new one at each evaluation
NewList(i) == i

\* the window of a session of the given variant after k plain turns
PriorWindow(variant, k) ==
    IF variant = "workflow" THEN PriorState(k).messages ELSE PriorHistory(k)

InitSessions ==
    /\ session = "sessions"
    /\ prior \in {0, MaxPriorTurns}
    /\ \E v \in [SessionIds -> {"workflow", "app"}] :
           /\ sess = [i \in SessionIds |->
                         [variant |-> v[i], ref |-> NewList(i), lead_captured |-> FALSE,
                          turns |-> prior]]
           /\ heap = [i \in 1..Cardinality(SessionIds) |-> PriorWindow(v[i], prior)]
           /\ solo = [i \in SessionIds |->
                         [messages |-> PriorWindow(v[i], prior), lead_captured |-> FALSE]]
    /\ order = <<>>
    /\ lead_data = EmptyLead
    /\ fed = <<>>
    /\ messages = <<>>
    /\ history = <<>>
    /\ lead_captured = FALSE
    /\ turns = 0
    /\ last = NoTurn
    /\ context = NoContext

\* the state of session i as its turn reads it
StateOf(i) == [messages |-> heap[sess[i].ref], lead_captured |-> sess[i].lead_captured]

\* A turn of session i ended with r: its appends went to the session's list
\* object; when the turn truncated, the session is bound to a new object.
\* rs is what the same turn gives on the state the session has when run alone
Commit(i, r, rs) ==
    LET ref == sess[i].ref
        full == heap[ref] \o Added(r)
        rebound == r.messages # full
    IN  /\ Len(order) < MaxSessionTurns
        /\ heap' = IF rebound
                   THEN Append([heap EXCEPT ![ref] = full], r.messages)
                   ELSE [heap EXCEPT ![ref] = full]
        /\ sess' = [sess EXCEPT ![i] =
                       [variant |-> @.variant,
                        ref |-> IF rebound THEN Len(heap) + 1 ELSE ref,
                        lead_captured |-> r.lead_captured,
                        turns |-> @.turns + 1]]
        /\ solo' = [solo EXCEPT ![i] =
                       [messages |-> rs.messages, lead_captured |-> rs.lead_captured]]
        /\ order' = Append(order, i)
        /\ UNCHANGED <<lead_data, fed, session, messages, lead_captured, prior, turns,
                       last, context, history>>

\* the responses the two-session turns draw from
SessionResponses == {PlainResponse, [content |-> FALSE, tool_calls |-> <<CallComplete>>]}

\* workflow.run on session i
SessionRun(i, resp) ==
    /\ session = "sessions" /\ sess[i].variant = "workflow"
    /\ Commit(i, run(StateOf(i), sess[i].turns + 1, resp, TRUE),
                 run(solo[i], sess[i].turns + 1, resp, TRUE))

\* workflow.run_stream on session i, the stream failing after cut chunks
SessionStream(i, resp, cut) ==
    /\ session = "sessions" /\ sess[i].variant = "workflow"
    /\ Commit(i, run_stream(StateOf(i), sess[i].turns + 1, Whole(resp), TRUE, cut),
                 run_stream(solo[i], sess[i].turns + 1, Whole(resp), TRUE, cut))

\* app.main on session i
SessionMain(i, resp) ==
    /\ session = "sessions" /\ sess[i].variant = "app"
    /\ Commit(i, main(StateOf(i).messages, sess[i].turns + 1, resp, TRUE, TRUE),
                 main(solo[i].messages, sess[i].turns + 1, resp, TRUE, TRUE))

NextSessions ==
    \/ \E i \in SessionIds, resp \in SessionResponses : SessionRun(i, resp)
    \/ \E i \in SessionIds, resp \in SessionResponses, cut \in {0, 2} :
           SessionStream(i, resp, cut)
    \/ \E i \in SessionIds, resp \in SessionResponses : SessionMain(i, resp)

SpecSessions == InitSessions /\ [][NextSessions]_vars

----------------------------------------------------------------------------
(* The grounding text: each builder on what the retrieval returned *)

InitContext ==
    /\ session = "context"
    /\ context = NoContext
    /\ NoSessions
    /\ lead_data = EmptyLead
    /\ fed = <<>>
    /\ messages = <<>>
    /\ history = <<>>
    /\ lead_captured = FALSE
    /\ prior = 0
    /\ turns = 0
    /\ last = NoTurn

\* context = self._retrieve_context(user_message), in _build_messages
WorkflowContext(docs) ==
    /\ session = "context"
    /\ context' = [builder |-> "workflow", docs |-> docs,
                   text |-> workflow_retrieve_context(docs)]
    /\ UNCHANGED <<lead_data, fed, session, messages, lead_captured, prior, turns, last, history>>
    /\ UNCHANGED sessionVars

\* RAGRetriever.retrieve_context(query)
RetrieverContext(docs) ==
    /\ session = "context"
    /\ context' = [builder |-> "retriever", docs |-> docs, text |-> retrieve_context(docs)]
    /\ UNCHANGED <<lead_data, fed, session, messages, lead_captured, prior, turns, last, history>>
    /\ UNCHANGED sessionVars

\* main, lines 99-100
MainContext(docs) ==
    /\ session = "context"
    /\ context' = [builder |-> "main", docs |-> docs, text |-> main_context(docs)]
    /\ UNCHANGED <<lead_data, fed, session, messages, lead_captured, prior, turns, last, history>>
    /\ UNCHANGED sessionVars

NextContext ==
    \/ \E docs \in SearchResults(WorkflowK) : WorkflowContext(docs)
    \/ \E docs \in SearchResults(RetrieverK) : RetrieverContext(docs)
    \/ \E docs \in SearchResults(MainK) : MainContext(docs)

SpecContext == InitContext /\ [][NextContext]_vars

----------------------------------------------------------------------------
(* The corrective message: _handle_validation_error on the text of any      *)
(* exception that lead_capture_tool.invoke raised                           *)

\* the words an error text is made of
ErrorWords ==
    {<<"e", "m", "a", "i", "l">>,
     <<"E", "M", "A", "I", "L">>,
     <<"N", "a", "m", "e">>,
     <<"n", "a", "m", "e">>,
     <<"p", "l", "a", "t", "f", "o", "r", "m">>,
     <<"i", "n", "v", "a", "l", "i", "d">>}

\* the number of words of an error text
MaxWords == 3

\* the error texts: up to MaxWords words with a space between them
ErrorTexts ==
    {Join(ws, " ") : ws \in UNION {[1..n -> ErrorWords] : n \in 0..MaxWords}}

InitErrors ==
    /\ session = "errors"
    /\ last = NoTurn
    /\ context = NoContext
    /\ NoSessions
    /\ lead_data = EmptyLead
    /\ fed = <<>>
    /\ messages = <<>>
    /\ history = <<>>
    /\ lead_captured = FALSE
    /\ prior = 0
    /\ turns = 0

\* error_msg = self._handle_validation_error(str(e), args)
HandleValidationError(error, args) ==
    /\ session = "errors"
    /\ last' = [variant |-> "handle_validation_error", error |-> error, args |-> args,
                message |-> handle_validation_error(error, args)]
    /\ UNCHANGED <<lead_data, fed, session, messages, lead_captured, prior, turns, context,
                   history>>
    /\ UNCHANGED sessionVars

NextErrors ==
    \E error \in ErrorTexts, args \in {ArgsComplete, ArgsBadEmail} :
        HandleValidationError(error, args)

SpecErrors == InitErrors /\ [][NextErrors]_vars

----------------------------------------------------------------------------
(* Properties of the lead session (SpecLead) *)

\* what message number k of the session sets in an empty record
Alone(k) == extract_info_from_message(Messages[fed[k]], EmptyLead)

\* C1: once the record's e-mail is non-null, no later extract call changes it,
\* whatever the later message contains
C1_EmailFirstWriteWins ==
    [][lead_data.email # None => lead_data'.email = lead_data.email]_vars

\* C1 witness: a message carrying another address came after the one that set
\* the e-mail, and the first address is still the record's
C1_Witness ==
    \E j \in 1..Len(fed), k \in 1..Len(fed) :
        /\ j < k
        /\ Alone(j).email # None /\ Alone(k).email # None
        /\ Alone(j).email # Alone(k).email
        /\ lead_data.email = Alone(j).email

\* C2: a name or a platform that is non-null is never overwritten or cleared by a
\* later extract call
C2_SlotsFirstWriteWins ==
    [][/\ lead_data.name # None => lead_data'.name = lead_data.name
       /\ lead_data.platform # None => lead_data'.platform = lead_data.platform]_vars

\* C2 witness: later messages matched the platform and the name heuristic with
\* other values, and the record holds the first ones
C2_Witness ==
    /\ \E j \in 1..Len(fed), k \in 1..Len(fed) :
           /\ j < k
           /\ Alone(j).platform # None /\ Alone(k).platform # None
           /\ Alone(j).platform # Alone(k).platform
           /\ lead_data.platform = Alone(j).platform
    /\ \E j \in 1..Len(fed), k \in 1..Len(fed) :
           /\ j < k
           /\ Alone(j).name # None /\ Alone(k).name # None
           /\ Alone(j).name # Alone(k).name
           /\ lead_data.name = Alone(j).name

\* C8: the three messages "My name is Jane Doe", "jane@example.com" and
\* "I make YouTube videos", fed in any order to an empty record, leave name, email
\* and platform correctly attributed and the record complete
C8_ThreeMessagesComplete ==
    (/\ Len(fed) = 3
     /\ {fed[k] : k \in 1..Len(fed)} =
            {Idx(MsgMyNameIs), Idx(MsgJaneEmail), Idx(MsgYouTubeVideos)})
    => /\ lead_data = [name |-> Some(MsgJaneDoe), email |-> Some(MsgJaneEmail),
                       platform |-> Some(StrYouTube)]
       /\ is_complete(lead_data)

\* every field is non-null and individually valid
AllValid(d) ==
    /\ d.name # None /\ validate_name_ok(d.name)
    /\ d.email # None /\ EmailStrOk(d.email[1])
    /\ d.platform # None /\ d.platform[1] \in {platforms[i] : i \in 1..Len(platforms)}

\* C9: is_complete() is true if and only if name, email and platform are all
\* non-null and each is individually valid
C9_CompleteIffValid == is_complete(lead_data) <=> AllValid(lead_data)

\* C10: a non-null name has length at least 2 after trimming
C10_NameAtLeastTwo ==
    lead_data.name # None => Len(strip(lead_data.name[1])) >= 2

\* the canonical vocabulary as a set
Canonical == {platforms[i] : i \in 1..Len(platforms)}

\* C11: a non-null platform of a record is one of the seven canonical values,
\* whether extract stored it or LeadData's platform validator did
C11_PlatformCanonical ==
    lead_data.platform # None => lead_data.platform[1] \in Canonical

\* word p occurs in message m when letter case is ignored
MentionsAnyCase(m, p) ==
    \E i \in 1..Len(m) :
        /\ i + Len(p) - 1 <= Len(m)
        /\ \A j \in 1..Len(p) : LowerChar(m[i + j - 1]) = LowerChar(p[j])

\* the vocabulary entries that message number k of the session mentions
Mentioned(k) == {p \in Canonical : MentionsAnyCase(Messages[fed[k]], p)}

\* C12: the first message of a session that mentions a vocabulary entry, in any
\* casing, sets the platform of the empty record to the canonical spelling of
\* an entry it mentions
C12_PlatformAnyCase ==
    \A k \in 1..Len(fed) :
        (Mentioned(k) # {} /\ \A j \in 1..(k - 1) : Mentioned(j) = {})
        => lead_data.platform \in {Some(p) : p \in Mentioned(k)}

\* C12 witness: "I use Tiktok", which does not have the canonical spelling in it,
\* set the platform to "TikTok"
C12_Witness ==
    /\ Len(fed) >= 1 /\ fed[1] = Idx(MsgUseTiktok)
    /\ ~Contains(MsgUseTiktok, StrTikTok)
    /\ lead_data.platform = Some(StrTikTok)

\* the fields of record d that are null, in the order name, email, platform
StillNull(d) == SelectSeq(<<"name", "email", "platform">>, LAMBDA f : d[f] = None)

\* C20: missing_fields() is exactly the fields that are still null, each once,
\* in the order name, email, platform; it lists no field that is non-null
C20_MissingFieldsAreNull == missing_fields(lead_data) = StillNull(lead_data)

\* C21: extract leaves the record object it was given as it was: after the
\* call the caller's input record has the values it had before the call
C21_ExtractLeavesArgument ==
    last.variant = "extract" => last.argument = last.before

\* the vocabulary in its declared order
Declared ==
    <<StrYouTube, StrInstagram, StrTikTok, StrFacebook, StrTwitter, StrTwitch, StrLinkedIn>>

\* the first position at which message m mentions entry p, case ignored
FirstMention(m, p) ==
    CHOOSE i \in 1..Len(m) :
        /\ i + Len(p) - 1 <= Len(m)
        /\ \A j \in 1..Len(p) : LowerChar(m[i + j - 1]) = LowerChar(p[j])
        /\ \A h \in 1..(i - 1) :
               ~(/\ h + Len(p) - 1 <= Len(m)
                 /\ \A j \in 1..Len(p) : LowerChar(m[h + j - 1]) = LowerChar(p[j]))

\* C24: the first message of a session that mentions vocabulary entries sets
\* the platform to the mentioned entry that comes first in the declared order,
\* wherever the entries stand in the message
C24_PlatformByDeclaredOrder ==
    \A k \in 1..Len(fed) :
        (Mentioned(k) # {} /\ \A j \in 1..(k - 1) : Mentioned(j) = {})
        => \E i \in 1..Len(Declared) :
               /\ Declared[i] \in Mentioned(k)
               /\ \A h \in 1..(i - 1) : Declared[h] \notin Mentioned(k)
               /\ lead_data.platform = Some(Declared[i])

\* C24 witness: "tiktok and YouTube" names TikTok before YouTube, and the
\* platform is YouTube
C24_Witness ==
    /\ Len(fed) >= 1 /\ fed[1] = Idx(MsgTwoPlatforms)
    /\ FirstMention(MsgTwoPlatforms, StrTikTok) < FirstMention(MsgTwoPlatforms, StrYouTube)
    /\ lead_data.platform = Some(StrYouTube)

\* the message of the last extract call
LastMessage == Messages[fed[Len(fed)]]

\* the positions at which a token of m starts, and the token that starts at i
TokenStarts(m) ==
    {i \in 1..Len(m) : m[i] \notin Whitespace /\ (i = 1 \/ m[i - 1] \in Whitespace)}

TokenAt(m, i) ==
    SubSeq(m, i, CHOOSE e \in i..Len(m) :
                     /\ \A k \in i..e : m[k] \notin Whitespace
                     /\ (e = Len(m) \/ m[e + 1] \in Whitespace))

\* m with every letter in lower case
LowerCased(m) == [j \in 1..Len(m) |-> LowerChar(m[j])]

\* m without its leading and trailing whitespace
Trimmed(m) ==
    LET inked == {i \in 1..Len(m) : m[i] \notin Whitespace} IN
    IF inked = {} THEN <<>>
    ELSE SubSeq(m, CHOOSE i \in inked : \A j \in inked : i <= j,
                   CHOOSE i \in inked : \A j \in inked : i >= j)

ConnectorWords == {<<"v", "a", "n">>, <<"d", "e">>, <<"v", "o", "n">>}

Stoplist ==
    {<<"y", "e", "s">>, <<"s", "u", "r", "e">>, <<"o", "k">>, <<"y", "e", "a", "h">>,
     <<"n", "o">>, <<"t", "h", "a", "n", "k", "s">>}

\* 1 to 4 tokens, each capitalized or one of van, de, von exactly as written
\* here, and the lower-cased message not in the stoplist
NameShapedStrict(m) ==
    /\ Cardinality(TokenStarts(m)) \in 1..4
    /\ \A i \in TokenStarts(m) : m[i] \in Upper \/ TokenAt(m, i) \in ConnectorWords
    /\ LowerCased(m) \notin Stoplist

\* the same with the connectors van, de, von taken in any casing
NameShaped(m) ==
    /\ Cardinality(TokenStarts(m)) \in 1..4
    /\ \A i \in TokenStarts(m) :
           m[i] \in Upper \/ LowerCased(TokenAt(m, i)) \in ConnectorWords
    /\ LowerCased(m) \notin Stoplist

C32_NameNeverStopword ==
    lead_data.name # None => LowerCased(Trimmed(lead_data.name[1])) \notin Stoplist

----------------------------------------------------------------------------
(* Properties of the turns (SpecTurns) *)

Events == {last.events[k] : k \in 1..Len(last.events)}

\* the arguments lack a non-empty string for one of name, email, platform
Incomplete(args) == \E f \in Fields : f \notin DOMAIN args \/ args[f] # "str"

\* some text of the turn has the part p
Said(p) == \E k \in 1..Len(last.texts) : \E i \in 1..Len(last.texts[k]) : last.texts[k][i] = p

\* C3: after each turn that ran to its end (a plain reply, an executed capture, a
\* validation error, a rejected capture) the window has at most 12 entries
C3_WindowBounded == ~last.aborted => Len(messages) <= WindowLimit

\* C3 witness: a turn with an executed capture ended on a window that was full,
\* so that the truncation dropped entries
C3_Witness ==
    /\ last.variant \in {"run", "run_stream"} /\ ~last.aborted
    /\ last.before_len + Len(last.added) > WindowLimit
    /\ \E e \in Events : e.outcome = "executed"
    /\ Len(messages) = WindowLimit

\* C4: lead_captured never goes from true to false
C4_CapturedMonotonic == [][lead_captured => lead_captured']_vars

\* C4 witness: a second capture with complete arguments was executed in a
\* session whose flag was already set, and the flag is still set
C4_Witness ==
    /\ last.before_captured /\ lead_captured
    /\ \E e \in Events : e.outcome = "executed" /\ e.args = ArgsComplete

\* C5: a capture request whose arguments lack a non-empty name, email or
\* platform never reaches the capture action: no notification is sent for it
C5_IncompleteNeverCaptures ==
    \A e \in Events : Incomplete(e.args) => ~e.sent /\ e.outcome # "executed"

\* C6: lead_captured becomes true only in a turn whose capture was invoked with
\* accepted arguments and returned its confirmation; a turn in which every
\* capture request raised or was rejected leaves the flag as it was
C6_CapturedOnlyOnExecuted ==
    /\ (lead_captured /\ ~last.before_captured)
           => \E e \in Events :
                  e.outcome = "executed" /\ e.sent /\ ToolInputErrors(e.args) = {}
    /\ (\A e \in Events : e.outcome # "executed")
           => lead_captured = last.before_captured

\* C6 witness: a workflow turn whose capture raised a validation error and ended
\* on the corrective text, with the flag false before and after
C6_Witness ==
    /\ ~last.before_captured /\ ~lead_captured
    /\ last.variant \in {"run", "run_stream"}
    /\ \E e \in Events : e.outcome = "raised"
    /\ Said("ask_email")

\* C7: when the notification send fails, lead_capture still returns a non-empty
\* confirmation: the call counts as executed, the turn records that text, and
\* the workflow sets lead_captured
C7_SendFailureDegrades ==
    \A e \in Events :
        (e.sent /\ ~last.sendOK)
        => /\ e.outcome = "executed"
           /\ ~last.aborted
           /\ Said("degraded")
           /\ last.variant \in {"run", "run_stream"} => lead_captured

\* C7 witness: a workflow turn whose send failed and whose flag went up
C7_Witness ==
    /\ last.variant \in {"run", "run_stream"} /\ ~last.sendOK
    /\ \E e \in Events : e.sent
    /\ ~last.before_captured /\ lead_captured

\* the entries the turn added that show the user an assistant text
Visible == {k \in 1..Len(last.added) :
               last.added[k].role = "assistant" /\ last.added[k].calls = 0}

\* C13: every turn that ran to its end added exactly one assistant-visible entry
\* to the window, whatever tool calls the response carried
C13_OneAssistantEntry ==
    (last.variant # "none" /\ ~last.aborted) => Cardinality(Visible) = 1

\* C14: a turn aborted by the failure of a generation or retrieval call leaves
\* the window and the flag as they were before the turn
C14_AbortWithoutMutation ==
    [][last'.aborted => (messages' = messages /\ lead_captured' = lead_captured)]_vars

\* the positions of the generation calls among the steps of the turn
Generations == {k \in 1..Len(last.steps) : last.steps[k] = "generate"}

\* C16: a turn whose capture was executed made its calls in the order draft
\* generation, capture, second generation, and its final text is the output of
\* the second generation call; no turn makes more than two generation calls
C16_TwoPhaseOrder ==
    /\ (~last.aborted /\ \E e \in Events : e.outcome = "executed")
           => /\ last.steps = <<"generate", "invoke", "generate">>
              /\ last.texts[Len(last.texts)] = <<"final">>
    /\ Cardinality(Generations) <= 2

\* the tool-call fragments of the stream, by what they carry
WholeSeen == SelectSeq(last.seen, LAMBDA tc : tc.name # "" /\ DOMAIN tc.args # {})

NamesSeen == SelectSeq(last.seen, LAMBDA tc : tc.name # "" /\ DOMAIN tc.args = {})

ArgsSeen == SelectSeq(last.seen, LAMBDA tc : tc.name = "" /\ DOMAIN tc.args # {})

\* the requests the fragments assemble to: each name with the arguments that
\* followed it
Assembled ==
    {WholeSeen[k] : k \in 1..Len(WholeSeen)}
    \cup {[name |-> NamesSeen[k].name, args |-> ArgsSeen[k].args] :
             k \in (1..Len(NamesSeen)) \cap (1..Len(ArgsSeen))}

\* the tool calls that reached lead_capture_tool.invoke
Dispatched == {e \in Events : e.outcome \in {"executed", "raised"}}

\* C17: in a run_stream turn read to its end, every dispatched capture is a
\* complete assembled request, and every complete capture request the chunks
\* assemble to is dispatched, however it was split
C17_FragmentsAssembled ==
    (last.variant = "run_stream" /\ ~last.aborted)
    => /\ \A e \in Dispatched :
              \E r \in Assembled : r.name = e.name /\ r.args = e.args
       /\ \A r \in Assembled :
              (r.name = "lead_capture_tool" /\ Fields \subseteq DOMAIN r.args)
              => \E e \in Dispatched : e.args = r.args

\* C19: after each workflow turn that ran to its end, the window is the most
\* recent min(n, 12) of the n entries ever appended, in the order they were
\* appended and unaltered
C19_WindowIsSuffix ==
    (last.variant \in {"run", "run_stream"} /\ ~last.aborted)
    => LET n == Len(history)
           m == Len(messages)
       IN  /\ m = IF n < WindowLimit THEN n ELSE WindowLimit
           /\ \A k \in 1..m : messages[k] = history[n - m + k]

\* C19 witness: a turn with an executed capture ended on more than 12 appended
\* entries, and the oldest ones are no longer in the window
C19_Witness ==
    /\ last.variant \in {"run", "run_stream"} /\ ~last.aborted
    /\ \E e \in Events : e.outcome = "executed"
    /\ Len(history) > WindowLimit /\ Len(messages) = WindowLimit
    /\ messages[1] = history[Len(history) - WindowLimit + 1]
    /\ messages[1] # history[1]

\* the capture requests of the turn were all rejected for incomplete arguments
OnlyRejected ==
    /\ \E e \in Events : e.name = "lead_capture_tool" /\ e.outcome = "rejected"
    /\ \A e \in Events : e.outcome \in {"rejected", "ignored"}

\* C22: a workflow turn whose capture request was rejected for incomplete
\* arguments ends with an assistant entry that has a text, the engine's or a
\* generic prompt; it never ends without assistant text
C22_RejectedFallsBackToText ==
    (last.variant \in {"run", "run_stream"} /\ ~last.aborted /\ OnlyRejected)
    => \E k \in Visible : last.texts[k] # <<>>

\* the positions of the user entries among the entries the turn added
UserAdded == {k \in 1..Len(last.added) : last.added[k].role = "user"}

\* C27: every turn that ran to its end appended the user message exactly once,
\* before any other entry of the turn, and in the window no assistant or tool
\* entry of a turn stands before that turn's user entry
C27_UserEntryFirst ==
    /\ (last.variant # "none" /\ ~last.aborted) => UserAdded = {1}
    /\ \A i \in 1..Len(messages), j \in 1..Len(messages) :
           (messages[i].turn = messages[j].turn /\ messages[i].role = "user"
            /\ messages[j].role # "user") => i < j

\* C28: a run_stream turn that ran to its end emitted at least one content
\* chunk and then exactly one state item, the last thing it emitted
C28_ChunksThenState ==
    (last.variant = "run_stream" /\ ~last.aborted)
    => /\ Len(last.emitted) >= 2
       /\ \A k \in 1..Len(last.emitted) :
              last.emitted[k] = <<"state">> <=> k = Len(last.emitted)

\* C29: in one turn the capture action is invoked at most once, whatever number
\* of lead_capture_tool requests the response carries
C29_CaptureAtMostOnce ==
    Cardinality({k \in 1..Len(last.events) :
                    last.events[k].outcome \in {"executed", "raised"}}) <= 1

\* C30: in the history of app.main every tool-result entry stands right after
\* the assistant entry of its turn that carries the tool-call request
C30_ToolResultAfterRequest ==
    session = "app"
    => \A k \in 1..Len(messages) :
           messages[k].role = "tool"
           => /\ k > 1
              /\ messages[k - 1].role = "assistant"
              /\ messages[k - 1].calls > 0
              /\ messages[k - 1].turn = messages[k].turn

\* the turn executed the capture action and its notification was delivered
Delivered ==
    \E k \in 1..Len(last.events) :
        last.events[k].outcome = "executed" /\ last.events[k].sent /\ last.sendOK

\* C31: an app.main turn that executed the capture action and delivered the
\* notification has recorded the tool call and the tool result in the history,
\* also when the second generation call failed
C31_DeliveredLeadRecorded ==
    (last.variant = "main" /\ Delivered)
    => /\ \E k \in 1..Len(last.added) : last.added[k].role = "tool"
       /\ \E k \in 1..Len(last.added) :
              last.added[k].role = "assistant" /\ last.added[k].calls > 0

\* C33: after each turn of run and run_stream the window, when not empty,
\* begins with a user entry that is the first entry of its turn, so that the
\* window consists of whole turns
C33_WindowOfWholeTurns ==
    (session = "workflow" /\ last.variant \in {"run", "run_stream"} /\ Len(messages) > 0)
    => /\ messages[1].role = "user"
       /\ messages[1].k = 1

\* the engine output a run_stream turn read: whether it carried text, and
\* its tool-call requests, those that came whole and those that came as a name
\* followed by its arguments
EngineOutput ==
    [content |-> \E k \in 1..Len(last.emitted) : last.emitted[k] = <<"text">>,
     tool_calls |-> WholeSeen \o
                    [k \in (1..Len(NamesSeen)) \cap (1..Len(ArgsSeen)) |->
                        [name |-> NamesSeen[k].name, args |-> ArgsSeen[k].args]]]

\* the state the last turn started from
StateBefore ==
    LET n == Len(history) - Len(last.added) IN
    [messages |-> SubSeq(history, n - last.before_len + 1, n),
     lead_captured |-> last.before_captured]

\* the number of times a turn invoked the capture tool
Invocations(events) ==
    Cardinality({k \in 1..Len(events) : events[k].outcome \in {"executed", "raised"}})

\* C34: a run_stream turn read to its end leaves the lead_captured value and
\* makes the number of capture invocations that run leaves and makes from the
\* same starting state on the same engine output
C34_RunAndStreamAgree ==
    (last.variant = "run_stream" /\ ~last.aborted)
    => LET r == run(StateBefore, turns, EngineOutput, last.sendOK) IN
       /\ r.lead_captured = lead_captured
       /\ Invocations(r.events) = Invocations(last.events)

----------------------------------------------------------------------------
(* Properties of the grounding text (SpecContext) *)

\* C15: when the retrieval returned no passage, the grounding text a builder
\* hands to the generation step is the placeholder, never the empty string
C15_PlaceholderOnNoPassages ==
    (context.builder # "none" /\ context.docs = <<>>)
    => (context.text = Placeholder /\ context.text # <<>>)

----------------------------------------------------------------------------
(* Properties of two interleaved sessions (SpecSessions) *)

----------------------------------------------------------------------------
(* Properties of the corrective message (SpecErrors) *)

\* C23: the corrective message is chosen by the error text alone: the e-mail
\* message if the text has "email" in any casing, otherwise the name message if
\* it has "name", otherwise the message that asks for all three fields
C23_CorrectiveByErrorText ==
    last.variant = "handle_validation_error"
    => last.message[1] =
           IF MentionsAnyCase(last.error, <<"e", "m", "a", "i", "l">>) THEN "ask_email"
           ELSE IF MentionsAnyCase(last.error, <<"n", "a", "m", "e">>) THEN "ask_name"
           ELSE "ask_all"

\* C23 witness: an error text with "Name" first and "EMAIL" after it gave the
\* e-mail message
C23_Witness ==
    /\ last.variant = "handle_validation_error"
    /\ last.error = <<"N", "a", "m", "e", " ", "E", "M", "A", "I", "L">>
    /\ last.message[1] = "ask_email"

====
